---------------------------- MODULE Spec2Model ----------------------------
(***************************************************************************)
(* Model of the ISS tracker (src/app.py): the hemisphere clipper           *)
(* drawPolygon, the draw pass, the rotation handlers, on_resize and the    *)
(* satellite poll loop dataLoop.                                           *)
(*                                                                         *)
(* Numbers.  The program computes in floating point with numpy's cos and   *)
(* sin.  The model computes the same formulas exactly, on a lattice of     *)
(* angles whose cosines and sines are rational:                            *)
(*   - angles are integers in units of 0.01 rad (the program's own         *)
(*     rotation sensitivity, angle = -dx * 0.01), so pi/2 is 157 and a     *)
(*     full turn is 628;                                                   *)
(*   - the lattice is the twelve angles q*157 + {0, 65, 92}, where         *)
(*     cos(0.65) = 4/5 and cos(0.92) = 3/5 to two decimals; Cos5 and Sin5  *)
(*     are 5*cos and 5*sin there;                                          *)
(*   - sphere coordinates are integers in units of 1/25 pixel and screen   *)
(*     coordinates in units of 1/50 pixel (WIDTH/2 may be a half).         *)
(* Rotations are by multiples of a quarter turn (pointer deltas that are   *)
(* multiples of 157 pixels), for which x*c - y*s is exact.                 *)
(***************************************************************************)
EXTENDS Integers, Sequences, FiniteSets, TLC

(***************************************************************************)
(* Bounds of the model.                                                    *)
(***************************************************************************)
\* longest polygon handed to the clipper in SpecClip
MaxLen == 4
\* |self.rotation| <= MaxTurns quarter turns
MaxTurns == 2

(***************************************************************************)
(* Program constants.                                                      *)
(***************************************************************************)
\* ISSTracker.SIZE
SIZE0 == 800
\* loadPolygon: rings shorter than this are dropped
MinRing == 125
\* loadPolygon: len(poly)//200
StrideDiv == 200
\* loadPolygon: smallest stride
MinStride == 3

\* Python's None; also the falsy value of `if self.iss_pos`
None == <<>>

(***************************************************************************)
(* numpy on the lattice.                                                   *)
(***************************************************************************)
QuarterTurn == 157
FullTurn == 4 * QuarterTurn

\* 5 * np.cos of the lattice angles of the first quarter turn, then of the
\* second, third and fourth
CosTable ==
    << << 5, 4, 3 >>, << 0, -3, -4 >>, << -5, -4, -3 >>, << 0, 3, 4 >> >>

\* 5 * np.cos(a), a in 0.01 rad
Cos5(a) ==
    LET m == a % FullTurn
        t == m % QuarterTurn
    IN  CosTable[(m \div QuarterTurn) + 1]
                [CASE t = 0 -> 1 [] t = 65 -> 2 [] t = 92 -> 3]

\* 5 * np.sin(a)
Sin5(a) == Cos5(a - QuarterTurn)

\* degrees * np.pi / 180, rounded to 0.01 rad
DegToRad(d) == (d * QuarterTurn + 45) \div 90

\* x, y, z in 1/25 pixel for r in pixels
cylindricalToCartesian(r, long, lat) ==
    LET c == Cos5(lat)
    IN  << r * c * Cos5(long), r * c * Sin5(long), r * Sin5(lat) * 5 >>

(***************************************************************************)
(* cartesianToLongLat, the local function of drawPolygon.  np.arctan2 is   *)
(* evaluated exactly where its result is an angle of the lattice; any      *)
(* other result is kept as the quotient it is the arc tangent of.          *)
(***************************************************************************)
\* the lattice angles of (-pi, pi]
Turn ==
    { t \in (1 - 2 * QuarterTurn)..(2 * QuarterTurn) :
        (t % QuarterTurn) \in { 0, 65, 92 } }

OnLattice(t) == [lattice |-> TRUE, rad |-> t, num |-> 0, den |-> 0, root |-> FALSE]
OffLattice(num, den, root) ==
    [lattice |-> FALSE, rad |-> 0, num |-> num, den |-> den, root |-> root]

\* np.arctan2(a, b): the angle t of (-pi, pi] with (b, a) a positive
\* multiple of (cos t, sin t); 0 for a = b = 0
arctan2(a, b) ==
    IF a = 0 /\ b = 0 THEN OnLattice(0)
    ELSE LET hits == { t \in Turn : /\ a * Cos5(t) = b * Sin5(t)
                                    /\ a * Sin5(t) + b * Cos5(t) > 0 }
         IN  IF hits = { } THEN OffLattice(a, b, FALSE)
             ELSE OnLattice(CHOOSE t \in hits : TRUE)

\* np.arctan2(a, h2 ** .5) for h2 >= 0: the angle t of [-pi/2, pi/2] with
\* sin t = a / (a**2 + h2) ** .5
arctan2Root(a, h2) ==
    IF a = 0 THEN OnLattice(0)
    ELSE LET hits == { t \in Turn : /\ Cos5(t) >= 0
                                    /\ Sin5(t) * a > 0
                                    /\ Sin5(t) * Sin5(t) * (a * a + h2)
                                          = 25 * a * a }
         IN  IF hits = { } THEN OffLattice(a, h2, TRUE)
             ELSE OnLattice(CHOOSE t \in hits : TRUE)

\* mutant: the inverse of cylindricalToCartesian (longitude about z,
\* latitude toward +z)
cartesianToLongLat_geographic(p) ==
    << arctan2(p[2], p[1]), arctan2Root(p[3], p[1] * p[1] + p[2] * p[2]) >>

\* long = np.arctan2(z, y); lat = np.arctan2(x, (y**2 + z**2)**.5)
cartesianToLongLat(p) ==
    << arctan2(p[3], p[2]), arctan2Root(p[1], p[2] * p[2] + p[3] * p[3]) >>

(***************************************************************************)
(* drawPolygon: the hemisphere clipper.                                    *)
(***************************************************************************)
\* getAngleAtBorder(*cartesianToLongLat(p), *cartesianToLongLat(q)): the
\* arctan2 interpolation is not evaluated; the angle is kept as the pair of
\* points the code computes it from.
crossing_angle(p, q) == << p, q >>

\* (y + WIDTH/2, -z + HEIGHT/2), in 1/50 pixel
transformed(p, W, H) == << 2 * p[2] + 25 * W, 25 * H - 2 * p[3] >>

\* LineTo(WIDTH/2 + R cos(crossing_angle), HEIGHT/2 - R sin(crossing_angle))
RimLineTo(ca) == [op |-> "LineTo", rim |-> TRUE, args |-> << ca >>]
RimMoveTo(ca) == [op |-> "MoveTo", rim |-> TRUE, args |-> << ca >>]
\* Arc(WIDTH/2, HEIGHT/2, R, -long(last_inside_pos), -crossing_angle, diff < 0)
RimArc(inside, ca) == [op |-> "Arc", rim |-> TRUE, args |-> << inside, ca >>]
LineTo(xy) == [op |-> "LineTo", rim |-> FALSE, args |-> << xy >>]

\* the locals of drawPolygon before the loop
ClipStart ==
    [start_pos |-> None, last_inside_pos |-> None, last_outside_pos |-> None,
     out |-> << >>]

\* mutant: the rim LineTo is emitted at every hidden point that follows a
\* hidden one (the test on last_outside_pos inverted, the other dropped)
ScanHidden_lineAtEveryHidden(st, p) ==
    [st EXCEPT
        !.out = IF st.last_outside_pos # None
                THEN Append(st.out, RimLineTo(crossing_angle(p, p)))
                ELSE st.out,
        !.last_outside_pos = p]

\* mutant: recording a hidden point clears last_inside_pos
ScanHidden_clearsInside(st, p) ==
    [st EXCEPT
        !.out = IF st.last_outside_pos = None /\ st.last_inside_pos # None
                THEN Append(st.out,
                            RimLineTo(crossing_angle(p, st.last_inside_pos)))
                ELSE st.out,
        !.last_outside_pos = p,
        !.last_inside_pos = None]

\* the `if x < 0:` branch of the loop body
ScanHidden(st, p) ==
    [st EXCEPT
        !.out = IF st.last_outside_pos = None /\ st.last_inside_pos # None
                THEN Append(st.out,
                            RimLineTo(crossing_angle(p, st.last_inside_pos)))
                ELSE st.out,
        !.last_outside_pos = p]

\* mutant: every return from the hidden side jumps (MoveTo), none arcs
ScanVisible_alwaysMoveTo(st, p, W, H) ==
    LET ca   == crossing_angle(p, st.last_outside_pos)
        out1 == IF st.last_outside_pos # None
                THEN Append(st.out, RimMoveTo(ca))
                ELSE st.out
    IN  [start_pos        |-> IF st.start_pos = None THEN p ELSE st.start_pos,
         last_inside_pos  |-> p,
         last_outside_pos |-> None,
         out              |-> Append(out1, LineTo(transformed(p, W, H)))]

\* the rest of the loop body, for a point with x >= 0
ScanVisible(st, p, W, H) ==
    LET ca   == crossing_angle(p, st.last_outside_pos)
        out1 == IF st.last_outside_pos # None
                THEN IF st.last_inside_pos = None
                     THEN Append(st.out, RimMoveTo(ca))
                     ELSE Append(st.out, RimArc(st.last_inside_pos, ca))
                ELSE st.out
    IN  [start_pos        |-> IF st.start_pos = None THEN p ELSE st.start_pos,
         last_inside_pos  |-> p,
         last_outside_pos |-> None,
         out              |-> Append(out1, LineTo(transformed(p, W, H)))]

\* mutant: a point on the boundary (x == 0) counts as hidden
ScanPoint_boundaryHidden(st, p, W, H) ==
    IF p[1] <= 0 THEN ScanHidden(st, p) ELSE ScanVisible(st, p, W, H)

\* one iteration of `for x, y, z in it.chain(points, [points[0]])`
ScanPoint(st, p, W, H) ==
    IF p[1] < 0 THEN ScanHidden(st, p) ELSE ScanVisible(st, p, W, H)

\* mutant: no closing step
ClipClose_never(st) == st

\* the closing step after the loop
ClipClose(st) ==
    IF st.start_pos # None /\ st.last_outside_pos # None
                           /\ st.last_inside_pos # None
    THEN [st EXCEPT !.out =
            Append(st.out,
                   RimArc(st.last_inside_pos,
                          crossing_angle(st.start_pos, st.last_outside_pos)))]
    ELSE st

\* it.chain(points, [points[0]]): element i of the chain.  points[0] is
\* evaluated when the chain is built, so an empty list raises IndexError
\* before the loop
Chain(points, i) == IF i <= Len(points) THEN points[i] ELSE points[1]

\* mutant: the loop runs over points alone, without the wrap
ChainLen_noWrap(points) == Len(points)

\* the number of elements of it.chain(points, [points[0]])
ChainLen(points) == Len(points) + 1

RECURSIVE ScanRange(_, _, _, _, _, _)
\* the loop over elements lo..hi of the chain, in order.  The range is split
\* in halves and the first half is evaluated before the second is entered
\* (that is all the test on `left` is for): it keeps TLC's evaluation
\* shallow.
ScanRange(st, points, lo, hi, W, H) ==
    IF lo = hi THEN ScanPoint(st, Chain(points, lo), W, H)
    ELSE LET mid  == (lo + hi) \div 2
             left == ScanRange(st, points, lo, mid, W, H)
         IN  IF DOMAIN left = DOMAIN st
             THEN ScanRange(left, points, mid + 1, hi, W, H)
             ELSE left

\* the whole call: the drawing objects added to the fill, or the exception
drawPolygon(points, W, H) ==
    IF points = << >>
    THEN [raised |-> "IndexError", out |-> << >>]
    ELSE [raised |-> "",
          out |-> ClipClose(ScanRange(ClipStart, points, 1, ChainLen(points), W, H)).out]


(***************************************************************************)
(* The border dataset (World_Continents.geojson).  The file itself is not  *)
(* part of the repository; the model loads a small document with the same  *)
(* shapes: a Feature holding a Polygon whose outer ring is below the       *)
(* 125-point filter, a Feature holding a MultiPolygon with one outer ring  *)
(* above the filter and one below, and a geometry of a type loadGeoJson    *)
(* does not know.                                                          *)
(***************************************************************************)
LonLattice == << -143, -127, -90, -53, -37, 0, 37, 53, 90, 127, 143, 180 >>
LatLattice == << -53, -37, 0, 37, 53 >>

\* a ring of n [longitude, latitude] pairs, in degrees
Ring(n, phase) ==
    [i \in 1..n |->
        << LonLattice[(((i - 1) \div 3 + phase) % 12) + 1],
           LatLattice[(((i - 1) \div 36 + phase) % 5) + 1] >>]

Dataset ==
    << [type |-> "Feature",
        geometry |-> [type |-> "Polygon",
                      coordinates |-> << Ring(124, 2), Ring(126, 5) >>]],
       [type |-> "Feature",
        geometry |-> [type |-> "MultiPolygon",
                      coordinates |-> << << Ring(126, 0), Ring(125, 3) >>,
                                         << Ring(12, 7) >> >>]],
       [type |-> "Feature",
        geometry |-> [type |-> "Point", coordinates |-> << 0, 0 >>]] >>

\* self.borders: assigned once by startup (json.load(f)['features']) and
\* never changed, so it is kept out of the state
borders == Dataset

Max(a, b) == IF a >= b THEN a ELSE b
Min(a, b) == IF a <= b THEN a ELSE b

\* mutant: the filter on the ring's length is gone
loadPolygon_keepsShortRings(polygons, poly, R) ==
    LET stride == Max(Len(poly) \div StrideDiv, MinStride)
        count  == (Len(poly) + stride - 1) \div stride
    IN  Append(polygons,
               SubSeq([k \in 1..count |->
                         cylindricalToCartesian(
                             R,
                             DegToRad(poly[(k - 1) * stride + 1][1]),
                             DegToRad(poly[(k - 1) * stride + 1][2]))],
                      1, count))

\* poly[::max(len(poly)//200, 3)], converted at radius R (SubSeq of the
\* whole list is the list, as a tuple)
loadPolygon(polygons, poly, R) ==
    IF Len(poly) < MinRing THEN polygons
    ELSE LET stride == Max(Len(poly) \div StrideDiv, MinStride)
             count  == (Len(poly) + stride - 1) \div stride
         IN  Append(polygons,
                    SubSeq([k \in 1..count |->
                              cylindricalToCartesian(
                                  R,
                                  DegToRad(poly[(k - 1) * stride + 1][1]),
                                  DegToRad(poly[(k - 1) * stride + 1][2]))],
                           1, count))

RECURSIVE loadMulti(_, _, _, _)
\* for poly in shape['coordinates']: self.loadPolygon(poly[0])
loadMulti(polygons, coords, i, R) ==
    IF i > Len(coords) THEN polygons
    ELSE loadMulti(loadPolygon(polygons, coords[i][1], R), coords, i + 1, R)

RECURSIVE loadGeoJson_unknownClears(_, _, _)
\* mutant: a shape of a type the match does not know empties the store
loadGeoJson_unknownClears(polygons, shape, R) ==
    CASE shape.type = "Feature"  ->
            loadGeoJson_unknownClears(polygons, shape.geometry, R)
      [] shape.type = "Polygon"  -> loadPolygon(polygons, shape.coordinates[1], R)
      [] shape.type = "MultiPolygon" -> loadMulti(polygons, shape.coordinates, 1, R)
      [] OTHER -> << >>

RECURSIVE loadGeoJson(_, _, _)
loadGeoJson(polygons, shape, R) ==
    CASE shape.type = "Feature"  -> loadGeoJson(polygons, shape.geometry, R)
      [] shape.type = "Polygon"  -> loadPolygon(polygons, shape.coordinates[1], R)
      [] shape.type = "MultiPolygon" -> loadMulti(polygons, shape.coordinates, 1, R)
      [] OTHER -> polygons

RECURSIVE loadBorders(_, _, _, _)
\* for border in self.borders: self.loadGeoJson(border)
loadBorders(polygons, features, i, R) ==
    IF i > Len(features) THEN polygons
    ELSE loadBorders(loadGeoJson(polygons, features[i], R), features, i + 1, R)

(***************************************************************************)
(* The draw pass.  `self` is the ISSTracker object as a record of its      *)
(* attributes.  self.canvas is the list of frames rendered by the most     *)
(* recent handler that drew (draw() clears the canvas first, so the last   *)
(* frame is what the canvas shows); a frame is the list of layers in the   *)
(* order they were painted, with the values draw() read: the satellite     *)
(* position, the rotation, D, R and the stored polygons.                   *)
(***************************************************************************)
\* drawGlobe: the disk, then drawPolygon for every stored polygon; objs is
\* the number of drawing objects each polygon's fill received
drawGlobe(self) ==
    [kind |-> "globe",
     at   |-> << 25 * self.WIDTH, 25 * self.HEIGHT >>,
     objs |-> [i \in 1..Len(self.polygons) |->
                 Len(drawPolygon(self.polygons[i], self.WIDTH, self.HEIGHT).out)]]

\* r = .5**.5, in thousandths of a degree
ShadowOffsets ==
    << << 1000, 0 >>, << 707, 707 >>, << 0, 1000 >>, << -707, 707 >>,
       << -1000, 0 >>, << -707, -707 >>, << 0, -1000 >>, << 707, -707 >> >>

\* drawShadow: the octagon around the satellite (thousandths of a degree),
\* handed to drawPolygonCylndrical; its clipping is not evaluated (the
\* octagon's points are off the lattice)
drawShadow(self) ==
    IF self.iss_pos = None THEN << >>
    ELSE << [kind |-> "shadow",
             at   |-> [k \in 1..8 |->
                         << ShadowOffsets[k][1] + 1000 * self.iss_pos[1],
                            ShadowOffsets[k][2] + 1000 * self.iss_pos[2] >>],
             objs |-> << >>] >>

\* fill.ellipse(*transformed, 5, 5)
Marker(p, W, H) == [kind |-> "marker", at |-> transformed(p, W, H), objs |-> << >>]

\* mutant: the far-side test is x < 0, so a marker exactly on the rim gets
\* no globe
drawLayers_strictFarSide(self) ==
    IF self.iss_pos # None
    THEN LET p == cylindricalToCartesian(self.D,
                      DegToRad(self.iss_pos[1]) + self.rotation,
                      DegToRad(self.iss_pos[2]))
             x == p[1]
         IN  (IF x > 0 THEN << drawGlobe(self) >> \o drawShadow(self) ELSE << >>)
             \o << Marker(p, self.WIDTH, self.HEIGHT) >>
             \o (IF x < 0 THEN << drawGlobe(self) >> ELSE << >>)
    ELSE << drawGlobe(self) >>

\* the layers of one pass
drawLayers(self) ==
    IF self.iss_pos # None
    THEN LET p == cylindricalToCartesian(self.D,
                      DegToRad(self.iss_pos[1]) + self.rotation,
                      DegToRad(self.iss_pos[2]))
             x == p[1]
         IN  (IF x > 0 THEN << drawGlobe(self) >> \o drawShadow(self) ELSE << >>)
             \o << Marker(p, self.WIDTH, self.HEIGHT) >>
             \o (IF x <= 0 THEN << drawGlobe(self) >> ELSE << >>)
    ELSE << drawGlobe(self) >>

draw(self) ==
    [self EXCEPT !.canvas =
        Append(@, [layers   |-> drawLayers(self),
                   iss_pos  |-> self.iss_pos,
                   rotation |-> self.rotation,
                   D        |-> self.D,
                   R        |-> self.R,
                   polygons |-> self.polygons])]

(***************************************************************************)
(* Rotation and the input handlers.                                        *)
(***************************************************************************)
\* poly[i] = x*c-y*s, x*s+y*c, z
rotatePoint(p, angle) ==
    LET c == Cos5(angle)
        s == Sin5(angle)
    IN  << (p[1] * c - p[2] * s) \div 5, (p[1] * s + p[2] * c) \div 5, p[3] >>

\* angle = -dx * 0.01, in units of 0.01 rad
rotate(self, dx) ==
    LET angle == -dx
    IN  draw([self EXCEPT
                !.rotation = @ + angle,
                !.polygons = [i \in 1..Len(@) |->
                                [j \in 1..Len(@[i]) |-> rotatePoint(@[i][j], angle)]]])

on_press(self, x, y) ==
    [self EXCEPT !.start_press = << x, y >>, !.prev_x_coord = x]

\* mutant: the drag runs from the release point to the press point
on_release_reversed(self, x, y) ==
    [(IF self.start_press # None
      THEN rotate(self, x - self.start_press[1])
      ELSE self)
     EXCEPT !.start_press = None]

on_release(self, x, y) ==
    [(IF self.start_press # None
      THEN rotate(self, self.start_press[1] - x)
      ELSE self)
     EXCEPT !.start_press = None]

\* mutant: the event's first argument is used as the delta itself
on_drag_rawDelta(self, dx, dy) ==
    [rotate(self, dx)
     EXCEPT !.prev_x_coord = dx, !.start_press = None]

\* mutant: the drag leaves the recorded press origin in place
on_drag_keepsOrigin(self, dx, dy) ==
    [rotate(self, self.prev_x_coord - dx)
     EXCEPT !.prev_x_coord = dx]

\* toga hands on_drag the pointer's position; the parameter is named dx
on_drag(self, dx, dy) ==
    [rotate(self, self.prev_x_coord - dx)
     EXCEPT !.prev_x_coord = dx, !.start_press = None]

\* int(SIZE / 2.5) for SIZE >= 0
DepthOf(size) == (2 * size) \div 5

\* mutant: the sizes are recomputed and the polygons reloaded, but
\* self.rotation is not reset
on_resize_keepsRotation(self, width, height) ==
    LET size == Min(width, height)
        s1 == [self EXCEPT !.SIZE = size, !.WIDTH = size, !.HEIGHT = size,
                           !.R = size \div 3, !.D = DepthOf(size)]
        s2 == rotate(s1, 0)
        s3 == [s2 EXCEPT !.polygons = loadBorders(<< >>, borders, 1, s2.R)]
    IN  rotate(s3, 0)

on_resize(self, width, height) ==
    LET size == Min(width, height)
        s1 == [self EXCEPT !.SIZE = size, !.WIDTH = size, !.HEIGHT = size,
                           !.R = size \div 3, !.D = DepthOf(size),
                           !.rotation = 0]
        s2 == rotate(s1, 0)
        s3 == [s2 EXCEPT !.polygons = loadBorders(<< >>, borders, 1, s2.R)]
    IN  rotate(s3, 0)

\* the object when startup() returns
startup ==
    LET s0 == [rotation |-> 0, start_press |-> None, iss_pos |-> None,
               prev_x_coord |-> 0,
               SIZE |-> SIZE0, WIDTH |-> SIZE0, HEIGHT |-> SIZE0,
               R |-> SIZE0 \div 3, D |-> DepthOf(SIZE0),
               polygons |-> loadBorders(<< >>, borders, 1, SIZE0 \div 3),
               canvas |-> << >>]
    IN  draw(s0)

(***************************************************************************)
(* The satellite feed.  A response is what the GET delivers: a body that   *)
(* is JSON or not, with or without "iss_position", whose "longitude" and   *)
(* "latitude" are each missing, a string float() rejects, or a (finite)    *)
(* number.                                                                 *)
(***************************************************************************)
Num(v)  == [kind |-> "num", val |-> v]
Missing == [kind |-> "missing", val |-> 0]
Text    == [kind |-> "text", val |-> 0]

Reply(lon, lat) == [body |-> "json", has_pos |-> TRUE, lon |-> lon, lat |-> lat]

Positions == { << 0, 0 >>, << 90, 0 >>, << 180, 37 >> }

Responses ==
    { [body |-> "garbage", has_pos |-> FALSE, lon |-> Missing, lat |-> Missing],
      [body |-> "json", has_pos |-> FALSE, lon |-> Missing, lat |-> Missing],
      Reply(Missing, Missing), Reply(Num(90), Missing), Reply(Missing, Num(0)),
      Reply(Text, Num(0)), Reply(Num(90), Text) }
    \cup { Reply(Num(p[1]), Num(p[2])) : p \in Positions }

\* result["iss_position"], float(location["longitude"]),
\* float(location["latitude"]): the pair, or the exception raised
get_iss_position(resp) ==
    CASE resp.body # "json"        -> [raised |-> "JSONDecodeError", value |-> None]
      [] ~resp.has_pos             -> [raised |-> "KeyError", value |-> None]
      [] resp.lon.kind = "missing" -> [raised |-> "KeyError", value |-> None]
      [] resp.lon.kind = "text"    -> [raised |-> "ValueError", value |-> None]
      [] resp.lat.kind = "missing" -> [raised |-> "KeyError", value |-> None]
      [] resp.lat.kind = "text"    -> [raised |-> "ValueError", value |-> None]
      [] OTHER -> [raised |-> "", value |-> << resp.lon.val, resp.lat.val >>]

(***************************************************************************)
(* The reverse-geocode lookup behind the button.  requests.get and         *)
(* response.json() either fail or deliver an object, of which the code     *)
(* reads the keys "error" and "display_name".                              *)
(***************************************************************************)
LookupFailed == [failed |-> TRUE, keys |-> { }]
Found(keys)  == [failed |-> FALSE, keys |-> keys]

Lookups ==
    { LookupFailed, Found({ }), Found({ "error" }), Found({ "display_name" }) }

\* projected_location up to its dialog: the exception raised, or the message
\* the InfoDialog shows
projected_location(self, lookup) ==
    CASE self.iss_pos = None ->
            [raised |-> "TypeError", message |-> None]
      [] lookup.failed ->
            [raised |-> "RequestException", message |-> None]
      [] "error" \in lookup.keys ->
            [raised |-> "", message |-> "somewhere above the ocean..."]
      [] "display_name" \in lookup.keys ->
            [raised |-> "", message |-> "display_name"]
      [] OTHER ->
            [raised |-> "KeyError", message |-> None]

(***************************************************************************)
(* State.                                                                  *)
(*   self   the ISSTracker object                                          *)
(*   loop   the dataLoop task: where it is suspended, and the exception    *)
(*          that ended it, if one did                                      *)
(*   event  the handler or task step that ran last: its arguments, the     *)
(*          rotation and satellite position it found, and the feed's       *)
(*          response, if it was a poll                                     *)
(*          response, if it was a poll; for projected_location, the        *)
(*          exception it raised or the message its dialog shows            *)
(*   clip   one call of drawPolygon, statement by statement (SpecClip)     *)
(*   load   the loop of startup over self.borders (SpecLoad)               *)
(*   geo    a geographic point through the two conversions (SpecGeo)       *)
(*   sched  the event loop: the tasks and callbacks, statement by          *)
(*          statement (SpecSched)                                          *)
(*   drag   the pointer gesture in progress (SpecDrag)                     *)
(***************************************************************************)
VARIABLES self, loop, event, clip, load, geo, sched, drag

vars == << self, loop, event, clip, load, geo, sched, drag >>

\* the state of the specifications the application's actions leave alone
units == << clip, load, geo, sched >>

NoResponse == [body |-> "none", has_pos |-> FALSE, lon |-> Missing, lat |-> Missing]

Ev(op, args, resp) ==
    [op |-> op, args |-> args, rotation |-> self.rotation,
     iss_pos |-> self.iss_pos, resp |-> resp, raised |-> "", message |-> None]

\* a handler starts with no frame of its own; if it never draws, the canvas
\* keeps the frames it had
Begin(s) == [s EXCEPT !.canvas = << >>]
Handled(s0, s1) == IF s1.canvas = << >> THEN [s1 EXCEPT !.canvas = s0.canvas] ELSE s1

ClipIdle == [pc |-> "idle", points |-> << >>, i |-> 0, st |-> ClipStart]

LoopStart == [pc |-> "request", exc |-> ""]

LoadIdle  == [pc |-> "idle"]
GeoIdle   == [pc |-> "idle"]
SchedIdle == [pc |-> "idle"]
\* no gesture yet: the phase, the x of the press, the x of the latest drag,
\* whether a drag came after the press, and self.rotation at the press
DragIdle ==
    [phase |-> "idle", x0 |-> 0, xn |-> 0, dragged |-> FALSE, rotation |-> 0]

\* startup() has returned
Started ==
    [op |-> "startup", args |-> << >>, rotation |-> 0, iss_pos |-> None,
     resp |-> NoResponse, raised |-> "", message |-> None]

Init ==
    /\ self = startup
    /\ loop = LoopStart
    /\ event = Started
    /\ clip = ClipIdle
    /\ load = LoadIdle
    /\ geo = GeoIdle
    /\ sched = SchedIdle
    /\ drag = DragIdle

\* pointer coordinates and (width, height) of the canvas the events carry
Xs == { 0, QuarterTurn }
Ys == { 0 }
Sizes == { << 300, SIZE0 >>, << SIZE0, 300 >>, << SIZE0, SIZE0 >> }

InRange(rotation) ==
    /\ rotation <= MaxTurns * QuarterTurn
    /\ -rotation <= MaxTurns * QuarterTurn

OnPress ==
    \E x \in Xs, y \in Ys :
        /\ self' = on_press(self, x, y)
        /\ event' = Ev("on_press", << x, y >>, NoResponse)
        /\ UNCHANGED << loop, units, drag >>

OnRelease ==
    \E x \in Xs, y \in Ys :
        /\ self' = Handled(self, on_release(Begin(self), x, y))
        /\ InRange(self'.rotation)
        /\ event' = Ev("on_release", << x, y >>, NoResponse)
        /\ UNCHANGED << loop, units, drag >>

OnDrag ==
    \E dx \in Xs, dy \in Ys :
        /\ self' = Handled(self, on_drag(Begin(self), dx, dy))
        /\ InRange(self'.rotation)
        /\ event' = Ev("on_drag", << dx, dy >>, NoResponse)
        /\ UNCHANGED << loop, units, drag >>

OnResize ==
    \E size \in Sizes :
        /\ self' = Handled(self, on_resize(Begin(self), size[1], size[2]))
        /\ event' = Ev("on_resize", size, NoResponse)
        /\ UNCHANGED << loop, units, drag >>

\* mutant: a failed poll is caught and its empty result assigned
dataLoop_assignsFailure(s, got) ==
    IF got.raised = ""
    THEN [self |-> draw([s EXCEPT !.iss_pos = got.value]),
          loop |-> [pc |-> "sleep", exc |-> ""]]
    ELSE [self |-> draw([s EXCEPT !.iss_pos = got.value]),
          loop |-> [pc |-> "sleep", exc |-> ""]]

\* self.iss_pos = await get_iss_position(); self.draw(); await sleep(2.5):
\* the task from the response to its next suspension.  There is no
\* try/except: an exception raised by get_iss_position ends the task.
dataLoop(s, got) ==
    IF got.raised = ""
    THEN [self |-> draw([s EXCEPT !.iss_pos = got.value]),
          loop |-> [pc |-> "sleep", exc |-> ""]]
    ELSE [self |-> s, loop |-> [pc |-> "dead", exc |-> got.raised]]

\* the GET returns a response.  get_iss_position suspends twice (the GET, the
\* body); nothing of the object is read or written in between, so the cycle
\* from the request to the sleep is one step.
Poll ==
    /\ loop.pc = "request"
    /\ \E resp \in Responses :
         LET after == dataLoop(Begin(self), get_iss_position(resp))
         IN  /\ self' = Handled(self, after.self)
             /\ loop' = after.loop
             /\ event' = Ev("poll", << >>, resp)
    /\ UNCHANGED << units, drag >>

\* session.get raises (no network)
PollNetError ==
    /\ loop.pc = "request"
    /\ LET after == dataLoop(Begin(self),
                             [raised |-> "ClientError", value |-> None])
       IN  /\ self' = Handled(self, after.self)
           /\ loop' = after.loop
    /\ event' = Ev("poll", << >>, NoResponse)
    /\ UNCHANGED << units, drag >>

\* asyncio.sleep(2.5) is over: the next cycle
Wake ==
    /\ loop.pc = "sleep"
    /\ loop' = [loop EXCEPT !.pc = "request"]
    /\ event' = Ev("wake", << >>, NoResponse)
    /\ UNCHANGED << self, units, drag >>

\* the button is pressed.  `lon, lat = self.iss_pos` comes first: when it
\* raises, no request is made and the event carries no lookup.  The handler
\* ends awaiting the dialog and changes nothing of the object.
ProjectedLocation ==
    \E lookup \in Lookups :
        LET got == projected_location(self, lookup)
        IN  /\ event' = [Ev("projected_location",
                            IF self.iss_pos = None THEN << >> ELSE << lookup >>,
                            NoResponse)
                         EXCEPT !.raised = got.raised, !.message = got.message]
            /\ UNCHANGED << self, loop, units, drag >>

Next ==
    \/ OnPress \/ OnRelease \/ OnDrag \/ OnResize
    \/ Poll \/ PollNetError \/ Wake
    \/ ProjectedLocation

Spec == Init /\ [][Next]_vars

(***************************************************************************)
(* SpecClip: drawPolygon on every polygon of at most MaxLen points, one    *)
(* statement at a time, on the canvas of the freshly started application.  *)
(***************************************************************************)
ClipPoints ==
    { cylindricalToCartesian(SIZE0 \div 3, DegToRad(g[1]), DegToRad(g[2])) :
        g \in { << 0, 0 >>, << 53, 37 >>, << 90, 0 >>, << 127, -37 >>,
                << 180, 0 >> } }

ClipInputs == UNION { [1..n -> ClipPoints] : n \in 0..MaxLen }

InitClip ==
    /\ self = startup
    /\ loop = LoopStart
    /\ event = Started
    /\ load = LoadIdle
    /\ geo = GeoIdle
    /\ sched = SchedIdle
    /\ drag = DragIdle
    /\ \E points \in ClipInputs :
         clip = [pc |-> "call", points |-> points, i |-> 0, st |-> ClipStart]

\* it.chain(points, [points[0]]) and the three locals
ClipEnter ==
    /\ clip.pc = "call"
    /\ clip' = IF clip.points = << >>
               THEN [clip EXCEPT !.pc = "IndexError"]
               ELSE [clip EXCEPT !.pc = "scan", !.i = 1]
    /\ UNCHANGED << self, loop, event, load, geo, sched, drag >>

\* one iteration of the loop
ClipScan ==
    /\ clip.pc = "scan"
    /\ clip' = [clip EXCEPT
                  !.st = ScanPoint(@, Chain(clip.points, clip.i),
                                   self.WIDTH, self.HEIGHT),
                  !.i  = @ + 1,
                  !.pc = IF clip.i = ChainLen(clip.points) THEN "close" ELSE "scan"]
    /\ UNCHANGED << self, loop, event, load, geo, sched, drag >>

\* the closing step and fill.redraw()
ClipEnd ==
    /\ clip.pc = "close"
    /\ clip' = [clip EXCEPT !.st = ClipClose(@), !.pc = "done"]
    /\ UNCHANGED << self, loop, event, load, geo, sched, drag >>

NextClip == ClipEnter \/ ClipScan \/ ClipEnd

SpecClip == InitClip /\ [][NextClip]_vars

(***************************************************************************)
(* SpecLoad: the loop of startup over self.borders, one feature at a time, *)
(* then the first drawGlobe, on datasets of two kinds: a single Polygon    *)
(* whose outer ring has 0..MaxRing points, and every sequence of at most   *)
(* MaxFeatures shapes drawn from Shapes.                                   *)
(***************************************************************************)
\* longest ring loaded
MaxRing == 801
\* longest dataset of mixed shapes
MaxFeatures == 3

Polygon(rings) == [type |-> "Polygon", coordinates |-> rings]
Feature(geometry) == [type |-> "Feature", geometry |-> geometry]

\* shapes a dataset may hold: a polygon above the filter, a geometry of a
\* type the match does not know inside a Feature, a top-level shape of such
\* a type, and a MultiPolygon with one ring above the filter and one below
Shapes ==
    { Feature(Polygon(<< Ring(126, 4) >>)),
      Feature([type |-> "Point", coordinates |-> << 0, 0 >>]),
      [type |-> "FeatureCollection", features |-> << >>],
      Feature([type |-> "MultiPolygon",
               coordinates |-> << << Ring(129, 1) >>, << Ring(12, 7) >> >>]) }

LoadInputs ==
    { << Polygon(<< Ring(n, 0) >>) >> : n \in 0..MaxRing }
    \cup UNION { [1..n -> Shapes] : n \in 0..MaxFeatures }

\* R at startup and after a resize to 300 pixels
Radii == { SIZE0 \div 3, 300 \div 3 }

InitLoad ==
    /\ self = startup
    /\ loop = LoopStart
    /\ event = Started
    /\ clip = ClipIdle
    /\ geo = GeoIdle
    /\ sched = SchedIdle
    /\ drag = DragIdle
    /\ \E features \in LoadInputs, R \in Radii :
         load = [pc |-> "for", features |-> features, i |-> 1, R |-> R,
                 polygons |-> << >>, raised |-> { }]

\* for border in self.borders: self.loadGeoJson(border)
LoadFeature ==
    /\ load.pc = "for"
    /\ load.i <= Len(load.features)
    /\ load' = [load EXCEPT
                  !.polygons = loadGeoJson(@, load.features[load.i], load.R),
                  !.i = @ + 1]
    /\ UNCHANGED << self, loop, event, clip, geo, sched, drag >>

\* the loop is over; drawGlobe hands every stored polygon to drawPolygon
LoadDraw ==
    /\ load.pc = "for"
    /\ load.i > Len(load.features)
    /\ load' = [load EXCEPT
                  !.pc = "drawn",
                  !.raised = { drawPolygon(load.polygons[k], SIZE0, SIZE0).raised :
                                 k \in 1..Len(load.polygons) }]
    /\ UNCHANGED << self, loop, event, clip, geo, sched, drag >>

NextLoad == LoadFeature \/ LoadDraw

SpecLoad == InitLoad /\ [][NextLoad]_vars

(***************************************************************************)
(* Properties of the loader (SpecLoad).                                    *)
(***************************************************************************)
\* the first shape of the dataset is a Polygon and has been loaded
RingLoaded ==
    /\ load.pc \in { "for", "drawn" } /\ load.i >= 2
    /\ load.features[1].type = "Polygon"
raw == load.features[1].coordinates[1]

\* C15: a ring of n raw points stores nothing when n < 125; otherwise it
\* stores one polygon, the conversions of the raw points at indices 0, s,
\* 2s, ... for s = max(n // 200, 3), ceil(n / s) of them.  Every stored
\* polygon has at least 42 points, and drawGlobe's calls of drawPolygon do
\* not raise the empty polygon's IndexError.
C15_RingFilterAndStride ==
    /\ RingLoaded =>
          LET n == Len(raw)
              s == IF n \div 200 >= 3 THEN n \div 200 ELSE 3
          IN  IF n < 125 THEN load.polygons = << >>
              ELSE /\ Len(load.polygons) = 1
                   /\ LET stored == load.polygons[1]
                      IN  /\ (Len(stored) - 1) * s < n
                          /\ n <= Len(stored) * s
                          /\ \A k \in 1..Len(stored) :
                                stored[k] =
                                  cylindricalToCartesian(
                                      load.R,
                                      DegToRad(raw[(k - 1) * s + 1][1]),
                                      DegToRad(raw[(k - 1) * s + 1][2]))
    /\ load.pc # "idle" =>
          /\ \A k \in 1..Len(load.polygons) : Len(load.polygons[k]) >= 42
          /\ "IndexError" \notin load.raised

\* a ring of 800 points, stored with stride 4
C15_Witness ==
    /\ RingLoaded /\ load.pc = "drawn" /\ Len(raw) = 800
    /\ Len(load.polygons) = 1 /\ Len(load.polygons[1]) = 200
    /\ load.raised = { "" }

\* a shape loadGeoJson skips: its type, or its geometry's if it is a
\* Feature, is none of Feature, Polygon, MultiPolygon
Skipped(shape) ==
    IF shape.type = "Feature"
    THEN shape.geometry.type \notin { "Feature", "Polygon", "MultiPolygon" }
    ELSE shape.type \notin { "Polygon", "MultiPolygon" }

\* C16: after each iteration the store holds what loading the features
\* processed so far without the skipped ones gives: a shape of unknown type
\* leaves the store as it was, and the features after it are loaded.  The
\* loop reaches the end of every dataset.
C16_UnknownTypeIsSkipped ==
    load.pc \in { "for", "drawn" } =>
        /\ load.polygons =
              loadBorders(<< >>,
                          SelectSeq(SubSeq(load.features, 1, load.i - 1),
                                    LAMBDA shape : ~Skipped(shape)),
                          1, load.R)
        /\ load.pc = "drawn" => load.i = Len(load.features) + 1

\* an unknown top-level type, an unknown geometry, then a polygon
C16_Witness ==
    /\ load.pc = "drawn" /\ Len(load.features) = 3
    /\ load.features[1].type = "FeatureCollection"
    /\ load.features[2].type = "Feature" /\ Skipped(load.features[2])
    /\ ~Skipped(load.features[3])
    /\ Len(load.polygons) = 1

(***************************************************************************)
(* SpecGeo: a geographic point of the lattice, in degrees, converted to    *)
(* the sphere the way loadPolygon does and back by cartesianToLongLat.     *)
(***************************************************************************)
\* latitudes, the poles included
GeoLats == << -90, -53, -37, 0, 37, 53, 90 >>

InitGeo ==
    /\ self = startup
    /\ loop = LoopStart
    /\ event = Started
    /\ clip = ClipIdle
    /\ load = LoadIdle
    /\ sched = SchedIdle
    /\ drag = DragIdle
    /\ \E r \in Radii, i \in 1..Len(LonLattice), j \in 1..Len(GeoLats) :
         geo = [pc |-> "geographic", r |-> r,
                long |-> LonLattice[i], lat |-> GeoLats[j],
                p |-> << >>, back |-> << >>]

\* cylindricalToCartesian(self.R, long * np.pi / 180, lat * np.pi / 180)
ToCartesian ==
    /\ geo.pc = "geographic"
    /\ geo' = [geo EXCEPT
                 !.pc = "cartesian",
                 !.p = cylindricalToCartesian(geo.r, DegToRad(geo.long),
                                              DegToRad(geo.lat))]
    /\ UNCHANGED << self, loop, event, clip, load, sched, drag >>

\* cartesianToLongLat(x, y, z)
ToGeographic ==
    /\ geo.pc = "cartesian"
    /\ geo' = [geo EXCEPT !.pc = "back", !.back = cartesianToLongLat(geo.p)]
    /\ UNCHANGED << self, loop, event, clip, load, sched, drag >>

NextGeo == ToCartesian \/ ToGeographic

SpecGeo == InitGeo /\ [][NextGeo]_vars

(***************************************************************************)
(* Properties of the conversions (SpecGeo).                                *)
(***************************************************************************)
OffPoles == -90 < geo.lat /\ geo.lat < 90
Original == << OnLattice(DegToRad(geo.long)), OnLattice(DegToRad(geo.lat)) >>

\* C17 as stated: off the poles, cylindricalToCartesian followed by
\* cartesianToLongLat gives back the original longitude and latitude.
C17_RoundTripReproduces ==
    (geo.pc = "back" /\ OffPoles) => geo.back = Original

\* C17 amended: cartesianToLongLat measures the longitude around the
\* viewing axis x and the latitude toward the viewer, so converting its
\* angles with cylindricalToCartesian gives the point with its axes
\* permuted, (y, z, x), not the point; the original pair does not come
\* back at any point of the lattice, and (longitude 90 degrees, latitude 0)
\* comes back as (0, 0).
C17_RoundTripPermutesAxes ==
    (geo.pc = "back" /\ OffPoles) =>
        /\ geo.back # Original
        /\ (geo.back[1].lattice /\ geo.back[2].lattice) =>
              cylindricalToCartesian(geo.r, geo.back[1].rad, geo.back[2].rad)
                = << geo.p[2], geo.p[3], geo.p[1] >>
        /\ (geo.long = 90 /\ geo.lat = 0) =>
              geo.back = << OnLattice(0), OnLattice(0) >>

\* (90, 0), the point (0, R, 0) of the sphere, has come back as (0, 0)
C17_Witness ==
    /\ geo.pc = "back" /\ geo.long = 90 /\ geo.lat = 0
    /\ geo.p = << 0, 25 * geo.r, 0 >>
    /\ geo.back = << OnLattice(0), OnLattice(0) >>

(***************************************************************************)
(* SpecDrag: pointer gestures as the toolkit delivers them, a press, any   *)
(* number of drags, a release, with the poll loop running in between.      *)
(* `drag` follows the gesture.  No resize comes in the middle of a         *)
(* gesture.                                                                *)
(***************************************************************************)
\* pointer x coordinates of a gesture
DragXs == { 0, QuarterTurn, 2 * QuarterTurn }

InitDrag ==
    /\ self = startup
    /\ loop = LoopStart
    /\ event = Started
    /\ clip = ClipIdle
    /\ load = LoadIdle
    /\ geo = GeoIdle
    /\ sched = SchedIdle
    /\ drag = DragIdle

DragPress ==
    /\ drag.phase \in { "idle", "released" }
    /\ \E x \in DragXs, y \in Ys :
         /\ self' = on_press(self, x, y)
         /\ event' = Ev("on_press", << x, y >>, NoResponse)
         /\ drag' = [phase |-> "pressed", x0 |-> x, xn |-> x,
                     dragged |-> FALSE, rotation |-> self.rotation]
    /\ UNCHANGED << loop, units >>

DragMove ==
    /\ drag.phase = "pressed"
    /\ \E x \in DragXs, y \in Ys :
         /\ self' = Handled(self, on_drag(Begin(self), x, y))
         /\ InRange(self'.rotation)
         /\ event' = Ev("on_drag", << x, y >>, NoResponse)
         /\ drag' = [drag EXCEPT !.xn = x, !.dragged = TRUE]
    /\ UNCHANGED << loop, units >>

DragRelease ==
    /\ drag.phase = "pressed"
    /\ \E x \in DragXs, y \in Ys :
         /\ self' = Handled(self, on_release(Begin(self), x, y))
         /\ InRange(self'.rotation)
         /\ event' = Ev("on_release", << x, y >>, NoResponse)
         /\ drag' = [drag EXCEPT !.phase = "released"]
    /\ UNCHANGED << loop, units >>

NextDrag == DragPress \/ DragMove \/ DragRelease \/ Poll \/ Wake

SpecDrag == InitDrag /\ [][NextDrag]_vars

(***************************************************************************)
(* Properties of a gesture (SpecDrag).                                     *)
(***************************************************************************)
\* C20: from the first drag of a gesture on, self.rotation is its value at
\* the press minus (x0 - xn) * 0.01, xn being the x of the latest drag:
\* every drag adds -(prev_x_coord - x) * 0.01 and leaves x in prev_x_coord
\* and no press origin, and the release adds nothing.
C20_GestureTurnsByPressToLastDrag ==
    drag.dragged =>
        /\ self.rotation = drag.rotation - (drag.x0 - drag.xn)
        /\ self.start_press = None
        /\ self.prev_x_coord = drag.xn

\* press at 0, drags ending at 314, release at 0: the globe has turned by
\* +3.14 and the release did not turn it back
C20_Witness ==
    /\ drag.phase = "released" /\ drag.dragged
    /\ drag.x0 = 0 /\ drag.xn = 2 * QuarterTurn
    /\ event.op = "on_release" /\ event.args[1] = 0
    /\ self.rotation = drag.rotation + 2 * QuarterTurn

(***************************************************************************)
(* SpecSched: the asyncio event loop.  It runs one activity at a time, the *)
(* dataLoop task or a canvas callback, statement by statement; a running   *)
(* activity keeps the thread until it returns or reaches an await, and     *)
(* only then does the loop start a callback or resume the task.  `todo` is *)
(* what each activity has left to execute.  Of the object the statements   *)
(* use iss_pos, rotation, start_press and prev_x_coord; `pass` records,    *)
(* for the draw pass each activity is in, the position draw() read for the *)
(* marker and the one drawShadow() read.                                   *)
(***************************************************************************)
Activities == { "dataLoop", "handler" }

\* the response of a statement that receives none
NoResponseYet == CHOOSE resp \in Responses : resp.body = "garbage"

\* mutant: draw() suspends before it calls drawShadow
Awaits_beforeShadow ==
    { "await session.get", "await response.json", "await asyncio.sleep",
      "drawShadow" }

\* the statements that are awaits
Awaits ==
    { "await session.get", "await response.json", "await asyncio.sleep" }

\* while True: self.iss_pos = await get_iss_position(); self.draw();
\* await asyncio.sleep(2.5)
LoopBody ==
    << "await session.get", "await response.json", "self.iss_pos =",
       "clear", "if self.iss_pos", "await asyncio.sleep" >>

\* rotate(dx): the rotation, then draw()
RotateBody == << "self.rotation +=", "clear", "if self.iss_pos" >>

\* the canvas callbacks
HandlerBody(op) ==
    CASE op = "on_press"   -> << "self.start_press =" >>
      [] op = "on_release" -> << "if self.start_press" >>
      [] op = "on_drag"    -> << "dx = prev_x_coord - x" >> \o RotateBody
                              \o << "self.prev_x_coord =", "self.start_press = None" >>
      [] op = "on_resize"  -> << "self.rotation = 0", "dx = 0" >> \o RotateBody
                              \o << "self.polygons =", "dx = 0" >> \o RotateBody

\* draw() after `if self.iss_pos:`, by the branch taken
DrawRest(iss_pos, rotation) ==
    IF iss_pos = None THEN << "drawGlobe", "return from draw" >>
    ELSE IF cylindricalToCartesian(DepthOf(SIZE0),
                DegToRad(iss_pos[1]) + rotation, DegToRad(iss_pos[2]))[1] > 0
         THEN << "drawGlobe", "drawShadow", "marker", "return from draw" >>
         ELSE << "marker", "drawGlobe", "return from draw" >>

Unread == [read |-> FALSE, pos |-> None]
ReadAs(pos) == [read |-> TRUE, pos |-> pos]
NoPass == [open |-> FALSE, marker |-> Unread, shadow |-> Unread]

SchedStart ==
    [pc      |-> "run",
     self    |-> [iss_pos |-> None, rotation |-> 0, start_press |-> None,
                  prev_x_coord |-> 0],
     running |-> "none",
     todo    |-> [t \in Activities |->
                    IF t = "dataLoop" THEN LoopBody ELSE << >>],
     x       |-> 0,
     dx      |-> 0,
     got     |-> None,
     pass    |-> [t \in Activities |-> NoPass]]

InitSched ==
    /\ self = startup
    /\ loop = LoopStart
    /\ event = Started
    /\ clip = ClipIdle
    /\ load = LoadIdle
    /\ geo = GeoIdle
    /\ drag = DragIdle
    /\ sched = SchedStart

\* who holds the thread once t has `rest` left: t itself, unless it has
\* returned or its next statement is an await
Holder(t, rest) ==
    IF rest = << >> \/ Head(rest) \in Awaits THEN "none" ELSE t

\* the event loop calls a canvas callback
Call ==
    /\ sched.pc = "run"
    /\ sched.running = "none"
    /\ sched.todo["handler"] = << >>
    /\ \E op \in { "on_press", "on_release", "on_drag", "on_resize" }, x \in Xs :
         /\ op = "on_drag" =>
               InRange(sched.self.rotation - (sched.self.prev_x_coord - x))
         /\ op = "on_release" /\ sched.self.start_press # None =>
               InRange(sched.self.rotation - (sched.self.start_press[1] - x))
         /\ sched' = [sched EXCEPT
                     !.todo["handler"] = HandlerBody(op),
                     !.x = IF op = "on_resize" THEN 0 ELSE x,
                     !.running = Holder("handler", HandlerBody(op))]
    /\ UNCHANGED << self, loop, event, clip, load, geo, drag >>

\* the object and the locals after statement `stmt` of activity t; resp is
\* the response an `await response.json` delivers
Effect(s, t, stmt, resp) ==
    CASE stmt = "await response.json" ->
            [s EXCEPT !.got = get_iss_position(resp)]
      [] stmt = "self.iss_pos =" ->
            [s EXCEPT !.self.iss_pos = s.got.value, !.got = None]
      [] stmt = "clear" ->
            [s EXCEPT !.pass[t] = [NoPass EXCEPT !.open = TRUE]]
      [] stmt = "if self.iss_pos" ->
            [s EXCEPT !.pass[t].marker = ReadAs(s.self.iss_pos)]
      [] stmt = "drawShadow" ->
            [s EXCEPT !.pass[t].shadow = ReadAs(s.self.iss_pos)]
      [] stmt = "return from draw" ->
            [s EXCEPT !.pass[t] = NoPass]
      [] stmt = "self.start_press =" ->
            [s EXCEPT !.self.start_press = << s.x, 0 >>,
                      !.self.prev_x_coord = s.x]
      [] stmt = "if self.start_press" ->
            [s EXCEPT !.dx = IF s.self.start_press = None THEN 0
                             ELSE s.self.start_press[1] - s.x]
      [] stmt = "dx = prev_x_coord - x" ->
            [s EXCEPT !.dx = s.self.prev_x_coord - s.x]
      [] stmt = "dx = 0" ->
            [s EXCEPT !.dx = 0]
      [] stmt = "self.rotation +=" ->
            [s EXCEPT !.self.rotation = @ - s.dx, !.dx = 0]
      [] stmt = "self.rotation = 0" ->
            [s EXCEPT !.self.rotation = 0]
      [] stmt = "self.prev_x_coord =" ->
            [s EXCEPT !.self.prev_x_coord = s.x]
      [] stmt = "self.start_press = None" ->
            [s EXCEPT !.self.start_press = None]
      [] OTHER -> s

\* what t has left after statement `stmt`, executed in s
Rest(s, t, stmt, resp) ==
    LET rest == Tail(s.todo[t])
    IN  CASE stmt = "await response.json" ->
                IF get_iss_position(resp).raised = "" THEN rest ELSE << >>
          [] stmt = "if self.iss_pos" ->
                DrawRest(s.self.iss_pos, s.self.rotation) \o rest
          [] stmt = "if self.start_press" ->
                (IF s.self.start_press = None THEN << >> ELSE RotateBody)
                \o << "self.start_press = None" >>
          [] stmt = "await asyncio.sleep" -> LoopBody
          [] OTHER -> rest

\* activity t executes its next statement: it holds the thread, or nobody
\* does and t waits in an await that now completes
Exec(t) ==
    /\ sched.pc = "run"
    /\ sched.todo[t] # << >>
    /\ \/ sched.running = t
       \/ sched.running = "none" /\ Head(sched.todo[t]) \in Awaits
    /\ \E resp \in Responses :
         LET stmt == Head(sched.todo[t])
             rest == Rest(sched, t, stmt, resp)
             next == Effect(sched, t, stmt, resp)
         IN  /\ stmt # "await response.json" => resp = NoResponseYet
             /\ sched' = [next EXCEPT !.todo[t] = rest,
                                      !.running = Holder(t, rest)]
    /\ UNCHANGED << self, loop, event, clip, load, geo, drag >>

RunLoop == Exec("dataLoop")
RunHandler == Exec("handler")

NextSched == Call \/ RunLoop \/ RunHandler

SpecSched == InitSched /\ [][NextSched]_vars

(***************************************************************************)
(* Properties of the event loop (SpecSched).                               *)
(***************************************************************************)
InPass(t) == sched.pass[t].open

\* C14: at most one draw pass is open at a time; the activity whose pass is
\* open holds the thread until the pass ends; and the position drawShadow()
\* reads is the one draw() read for the marker in the same pass.
C14_OnePassOnePosition ==
    sched.pc = "run" =>
        /\ ~(InPass("dataLoop") /\ InPass("handler"))
        /\ \A t \in Activities :
             /\ InPass(t) => sched.running = t
             /\ sched.pass[t].shadow.read =>
                   /\ sched.pass[t].marker.read
                   /\ sched.pass[t].shadow.pos = sched.pass[t].marker.pos

\* a callback's pass has read the position for marker and shadow while the
\* poll task waits for a response that carries another position
C14_Witness ==
    /\ sched.pc = "run" /\ InPass("handler")
    /\ sched.pass["handler"].shadow = ReadAs(<< 0, 0 >>)
    /\ sched.pass["handler"].marker = ReadAs(<< 0, 0 >>)
    /\ Head(sched.todo["dataLoop"]) = "await response.json"

(***************************************************************************)
(* Properties of the clipper (SpecClip).                                   *)
(***************************************************************************)
Scanning == clip.pc \in { "scan", "close", "done" }
Emitted  == clip.st.out
Hidden(p) == p[1] < 0
AllHidden  == clip.points # << >> /\ \A k \in 1..Len(clip.points) : Hidden(clip.points[k])
AllVisible == clip.points # << >> /\ \A k \in 1..Len(clip.points) : ~Hidden(clip.points[k])
NumOp(out, op) == Cardinality({ k \in 1..Len(out) : out[k].op = op })
\* the points the loop has processed so far: elements 1..Processed of the chain
Processed == clip.i - 1

\* C1: a non-empty polygon whose points all have x < 0 gets through the scan,
\* the wrap and the closing step without a single drawing primitive.
C1_HiddenPolygonEmitsNothing ==
    AllHidden => clip.pc # "IndexError" /\ Emitted = << >>

C1_Witness ==
    AllHidden /\ Len(clip.points) >= 2 /\ clip.pc = "done" /\ Emitted = << >>

\* C2 as stated: an all-visible polygon of n points yields n primitives.
C2_AsManyPrimitivesAsPoints ==
    (AllVisible /\ clip.pc = "done") => Len(Emitted) = Len(clip.points)

\* C2 amended: an all-visible polygon of n points yields n + 1 primitives,
\* one LineTo per point and one more for the first point, which the loop
\* visits again at the end.
C2_OnePrimitiveMoreThanPoints ==
    (AllVisible /\ clip.pc = "done") => Len(Emitted) = Len(clip.points) + 1

C2_Witness ==
    /\ AllVisible /\ clip.pc = "done"
    /\ Len(clip.points) = 4 /\ Len(Emitted) = 5
    /\ \A k \in 1..5 : Emitted[k].op = "LineTo"

\* C3: for a non-empty polygon whose points all have x >= 0 (x = 0 included)
\* every primitive emitted, during the scan and by the closing step, is a
\* LineTo to the projection of a point of the polygon: no MoveTo, no Arc, no
\* LineTo to the rim.
C3_VisiblePolygonOnlyLineTo ==
    AllVisible =>
        \A k \in 1..Len(Emitted) :
            /\ Emitted[k].op = "LineTo"
            /\ ~Emitted[k].rim
            /\ \E j \in 1..Len(clip.points) :
                 Emitted[k].args[1] =
                    transformed(clip.points[j], self.WIDTH, self.HEIGHT)

C3_Witness ==
    /\ AllVisible /\ clip.pc = "done" /\ Len(Emitted) >= 3
    /\ \E k \in 1..Len(clip.points) : clip.points[k][1] = 0
    /\ \E k \in 1..Len(clip.points) : clip.points[k][1] > 0

\* C4 as stated: drawPolygon on an empty polygon or on a polygon of one
\* point does not raise and emits nothing.
C4_DegenerateEmitsNothing ==
    Len(clip.points) <= 1 =>
        /\ clip.pc # "IndexError"
        /\ clip.pc = "done" => Emitted = << >>

\* the most recent visible point among the first k elements of the chain
LastVisibleUpTo(k) ==
    LET seen == { j \in 1..k : ~Hidden(Chain(clip.points, j)) }
    IN  IF seen = { } THEN None
        ELSE Chain(clip.points, CHOOSE j \in seen : \A h \in seen : h <= j)

\* C8 as stated: after any point at most one of last_inside_pos and
\* last_outside_pos is set.
C8_MutuallyExclusive ==
    Scanning => clip.st.last_inside_pos = None \/ clip.st.last_outside_pos = None

\* C8 amended: only last_outside_pos is ever cleared.  After a visible point
\* last_inside_pos is that point and last_outside_pos is None; after a hidden
\* point last_outside_pos is that point and last_inside_pos still holds the
\* most recent visible point (None when there was none).
C8_OnlyOutsideIsCleared ==
    (Scanning /\ Processed >= 1) =>
        LET p == Chain(clip.points, Processed)
        IN  IF Hidden(p)
            THEN /\ clip.st.last_outside_pos = p
                 /\ clip.st.last_inside_pos = LastVisibleUpTo(Processed)
            ELSE /\ clip.st.last_inside_pos = p
                 /\ clip.st.last_outside_pos = None

C8_Witness ==
    /\ clip.pc = "scan" /\ Processed >= 2
    /\ clip.st.last_inside_pos # None /\ clip.st.last_outside_pos # None

\* consecutive points of the closed polygon are on opposite sides of x = 0
Alternating ==
    \A k \in 1..Len(clip.points) :
        Hidden(clip.points[k]) # Hidden(Chain(clip.points, k + 1))

\* C9: drawPolygon on a non-empty polygon emits at most one MoveTo; a MoveTo
\* is the first primitive emitted; and one is emitted exactly when the first
\* point is hidden and some point is visible.
C9_AtMostOneMoveTo ==
    Scanning =>
        /\ NumOp(Emitted, "MoveTo") <= 1
        /\ \A k \in 1..Len(Emitted) : Emitted[k].op = "MoveTo" => k = 1
        /\ clip.pc = "done" =>
             (NumOp(Emitted, "MoveTo") = 1
                <=> /\ Hidden(clip.points[1])
                    /\ \E k \in 1..Len(clip.points) : ~Hidden(clip.points[k]))

C9_Witness ==
    /\ clip.pc = "done" /\ Len(clip.points) = 4 /\ Alternating
    /\ Hidden(clip.points[1])
    /\ Emitted[1].op = "MoveTo" /\ NumOp(Emitted, "MoveTo") = 1

\* the steps of the closed polygon, from point k to the next (the last
\* point's next is the first), that leave or enter the visible side
VisibleToHidden ==
    { k \in 1..Len(clip.points) :
        ~Hidden(clip.points[k]) /\ Hidden(Chain(clip.points, k + 1)) }
HiddenToVisible ==
    { k \in 1..Len(clip.points) :
        Hidden(clip.points[k]) /\ ~Hidden(Chain(clip.points, k + 1)) }
RimLines(out) ==
    { k \in 1..Len(out) : out[k].op = "LineTo" /\ out[k].rim }
EndsWithArc(out) == out # << >> /\ out[Len(out)].op = "Arc"

\* C18: for every non-empty polygon the finished call has emitted as many
\* LineTo primitives to the rim as the closed polygon has steps from a
\* visible to a hidden point, and as many Arcs, the closing one included, as
\* it has steps from a hidden to a visible point.  Inside the loop an Arc is
\* always followed by a LineTo, so the output ends with an Arc exactly when
\* the closing step emitted one, and it does exactly when the first point
\* is hidden and some point is visible.
C18_OneRimPrimitivePerCrossing ==
    /\ clip.pc = "close" => ~EndsWithArc(Emitted)
    /\ clip.pc = "done" =>
          /\ Cardinality(RimLines(Emitted)) = Cardinality(VisibleToHidden)
          /\ NumOp(Emitted, "Arc") = Cardinality(HiddenToVisible)
          /\ EndsWithArc(Emitted)
                <=> /\ Hidden(clip.points[1])
                    /\ \E k \in 1..Len(clip.points) : ~Hidden(clip.points[k])

\* hidden, visible, hidden, visible: MoveTo, Arc and the closing Arc
C18_Witness ==
    /\ clip.pc = "done" /\ Len(clip.points) = 4
    /\ Cardinality(HiddenToVisible) = 2 /\ Cardinality(VisibleToHidden) = 2
    /\ Hidden(clip.points[1])
    /\ NumOp(Emitted, "Arc") = 2 /\ Cardinality(RimLines(Emitted)) = 2
    /\ EndsWithArc(Emitted)

(***************************************************************************)
(* Properties of the application (Spec).                                   *)
(***************************************************************************)
\* a response the feed's contract describes: JSON with "iss_position" whose
\* longitude and latitude both parse as numbers
WellFormed(resp) ==
    /\ resp.body = "json" /\ resp.has_pos
    /\ resp.lon.kind = "num" /\ resp.lat.kind = "num"

FailedPoll == event.op = "poll" /\ ~WellFormed(event.resp)

\* C5 as stated: a failed poll does not propagate out of dataLoop, which
\* keeps running (it is suspended in its sleep or in its next request).
C5_FailedPollKeepsLoopRunning ==
    FailedPoll => loop.pc \in { "sleep", "request" } /\ loop.exc = ""

\* C6: a failed poll leaves self.iss_pos as the cycle found it, a successful
\* one replaces it by the pair of that one response, and so iss_pos is always
\* None or the complete (longitude, latitude) pair of a single response.
C6_FailedPollKeepsPosition ==
    /\ FailedPoll => self.iss_pos = event.iss_pos
    /\ (event.op = "poll" /\ WellFormed(event.resp)) =>
          self.iss_pos = << event.resp.lon.val, event.resp.lat.val >>
    /\ \/ self.iss_pos = None
       \/ \E resp \in Responses :
            /\ WellFormed(resp)
            /\ self.iss_pos = << resp.lon.val, resp.lat.val >>

C6_Witness ==
    /\ FailedPoll /\ event.resp = Reply(Num(90), Missing)
    /\ event.iss_pos = << 180, 37 >> /\ self.iss_pos = << 180, 37 >>

\* the layers of a frame, by kind, in the order painted
Kinds(frame) == [j \in 1..Len(frame.layers) |-> frame.layers[j].kind]

\* the marker's projected depth x in a frame: the position at depth D under
\* the rotation, as draw() read them
MarkerDepth(frame) ==
    cylindricalToCartesian(frame.D,
        DegToRad(frame.iss_pos[1]) + frame.rotation,
        DegToRad(frame.iss_pos[2]))[1]

\* C7: every draw pass paints globe, shadow, marker when the position is set
\* and the marker's depth x > 0; marker, globe (no shadow) when set and
\* x <= 0; the globe alone when unset; the globe exactly once in each case.
\* The last pass read the object's current position, rotation and D.
C7_DrawOrderBySignOfDepth ==
    /\ \A k \in 1..Len(self.canvas) :
         LET frame == self.canvas[k]
         IN  /\ Kinds(frame) =
                  IF frame.iss_pos = None THEN << "globe" >>
                  ELSE IF MarkerDepth(frame) > 0
                       THEN << "globe", "shadow", "marker" >>
                       ELSE << "marker", "globe" >>
             /\ Cardinality({ j \in 1..Len(frame.layers) :
                                frame.layers[j].kind = "globe" }) = 1
    /\ LET last == self.canvas[Len(self.canvas)]
       IN  /\ last.iss_pos = self.iss_pos
           /\ last.rotation = self.rotation
           /\ last.D = self.D

\* the satellite at (0, 0), in front at rotation 0, turned to the far side
C7_Witness ==
    /\ self.iss_pos = << 0, 0 >> /\ self.rotation # 0
    /\ MarkerDepth(self.canvas[Len(self.canvas)]) < 0
    /\ Kinds(self.canvas[Len(self.canvas)]) = << "marker", "globe" >>

\* C10: when on_resize(width, height) has returned, self.rotation is 0 and
\* self.polygons are the polygons loaded from the border source at
\* R = min(width, height) // 3, unrotated, whatever the rotation was before.
C10_ResizeDiscardsRotation ==
    event.op = "on_resize" =>
        /\ self.rotation = 0
        /\ self.R = Min(event.args[1], event.args[2]) \div 3
        /\ self.polygons = loadBorders(<< >>, borders, 1, self.R)

C10_Witness ==
    /\ event.op = "on_resize" /\ event.rotation # 0
    /\ self.rotation = 0 /\ self.R # SIZE0 \div 3
    /\ self.polygons = loadBorders(<< >>, borders, 1, self.R)

(***************************************************************************)
(* Properties of the pointer handlers (Spec), as properties of a step:     *)
(* event' names the handler the step ran and its arguments, self is the    *)
(* object it found and self' the object it left.                           *)
(***************************************************************************)
\* the stored polygons with every point turned by angle
Turned(polygons, angle) ==
    [i \in 1..Len(polygons) |->
        [j \in 1..Len(polygons[i]) |-> rotatePoint(polygons[i][j], angle)]]

\* the step left exactly one draw pass, made of the object it left
OneRedraw ==
    /\ Len(self'.canvas) = 1
    /\ self'.canvas[1].rotation = self'.rotation
    /\ self'.canvas[1].polygons = self'.polygons

\* C11 as stated: an on_drag event carrying dx changes self.rotation by
\* -dx * 0.01.
C11_DragTurnsByItsArgument ==
    [][event'.op = "on_drag" =>
          self'.rotation = self.rotation - event'.args[1]]_vars

\* C11 amended: an on_drag event carrying the pointer coordinate x changes
\* self.rotation by -(prev_x_coord - x) * 0.01, prev_x_coord being the x of
\* the press or drag before it; it turns every stored point by that angle,
\* draws exactly once, and records x as prev_x_coord.
C11_DragTurnsByPointerTravel ==
    [][event'.op = "on_drag" =>
          LET angle == -(self.prev_x_coord - event'.args[1])
          IN  /\ self'.rotation = self.rotation + angle
              /\ self'.polygons = Turned(self.polygons, angle)
              /\ Len(on_drag(Begin(self), event'.args[1], event'.args[2]).canvas) = 1
              /\ OneRedraw
              /\ self'.prev_x_coord = event'.args[1]]_vars

\* a drag to x = 157 from prev_x_coord = 0 that turned the globe by +1.57
C11_Witness ==
    /\ event.op = "on_drag" /\ event.args[1] = QuarterTurn
    /\ self.rotation = event.rotation + QuarterTurn
    /\ Len(self.canvas) = 1 /\ self.prev_x_coord = QuarterTurn

\* C12: a release at x with a recorded origin changes self.rotation by
\* -(originX - x) * 0.01, turns every stored point by that angle, draws
\* exactly once and clears the origin; a release with no recorded origin
\* changes neither the rotation nor the polygons and draws nothing.  The
\* origin is recorded by on_press and cleared by on_drag and on_release only.
C12_ReleaseTurnsByPressToRelease ==
    /\ [][event'.op = "on_release" =>
          LET passes == on_release(Begin(self), event'.args[1],
                                   event'.args[2]).canvas
          IN  /\ self'.start_press = None
              /\ IF self.start_press # None
                 THEN LET angle == -(self.start_press[1] - event'.args[1])
                      IN  /\ self'.rotation = self.rotation + angle
                          /\ self'.polygons = Turned(self.polygons, angle)
                          /\ Len(passes) = 1
                          /\ OneRedraw
                 ELSE /\ self'.rotation = self.rotation
                      /\ self'.polygons = self.polygons
                      /\ passes = << >>
                      /\ self'.canvas = self.canvas]_vars
    /\ [][/\ event'.op = "on_press" => self'.start_press = event'.args
          /\ event'.op = "on_drag" => self'.start_press = None
          /\ event'.op \notin { "on_press", "on_drag", "on_release" } =>
                self'.start_press = self.start_press]_vars

\* a press at 0 released at 157: the globe turned by +1.57
C12_Witness ==
    /\ event.op = "on_release" /\ event.args[1] = QuarterTurn
    /\ self.rotation = event.rotation + QuarterTurn
    /\ self.start_press = None /\ Len(self.canvas) = 1

(***************************************************************************)
(* The button (Spec).                                                      *)
(***************************************************************************)
\* C13 as stated: whenever the button is pressed, before the first
\* successful poll included, and whatever the lookup delivers,
\* projected_location raises nothing and ends showing a message.
C13_LookupAlwaysShowsMessage ==
    event.op = "projected_location" =>
        event.raised = "" /\ event.message # None

(***************************************************************************)
(* Borders and satellite under one rotation (Spec).                        *)
(***************************************************************************)
\* the polygons a pass drew are the source polygons loaded at the pass's R
\* and turned by the pass's rotation
UnderOneRotation(frame) ==
    frame.polygons =
        Turned(loadBorders(<< >>, borders, 1, frame.R), frame.rotation)

\* C19 as stated: every draw pass, those in the middle of on_resize
\* included, draws polygons that are the source polygons loaded at the
\* current R and turned by exactly self.rotation, the angle the pass uses
\* for the marker and the shadow.
C19_EveryPassUnderOneRotation ==
    \A k \in 1..Len(self.canvas) : UnderOneRotation(self.canvas[k])

=============================================================================
